---- MODULE Spec2Model ----
(***************************************************************************)
(* A model of microcore's file storage (src/microcore/file_storage.py):    *)
(* the Storage class over a POSIX file system.                             *)
(*                                                                         *)
(* Text is modelled as a sequence of one-character strings, so that the    *)
(* string operations of the code (split on ".", suffix, f-strings, glob    *)
(* matching, newline translation) are computed rather than assumed.        *)
(* A file system is a function from canonical absolute paths (a sequence   *)
(* of components, <<>> being "/") to nodes; there are no symbolic links.   *)
(***************************************************************************)
EXTENDS Integers, Sequences, FiniteSets, TLC

VARIABLES
    fs,      \* the file system: canonical path -> node
    pc,      \* position of the call in progress: "idle", or a step of write
    call,    \* the arguments of the call in progress or last finished
    res,     \* the outcome of the last finished call
    pre,     \* the file system when that call started
    loc,     \* the locals of a write in progress (file_name, file_name1)
    ncalls,  \* number of calls started
    hist,    \* the finished calls, oldest first (kept by the sequence runs)
    fs0,     \* the file system the run started from
    safe,    \* every call so far was a write that keeps a backup or does not rewrite
    subject  \* the name a sequence run writes, reads and deletes the siblings of

vars == <<fs, pc, call, res, pre, loc, ncalls, hist, fs0, safe, subject>>

---------------------------------------------------------------------------
(* Text *)

SLASH == "/"
DOT == "."
CR == "\r"
LF == "\n"

\* s[i..] and s[..i]
From(s, i) == SubSeq(s, i, Len(s))
Upto(s, i) == SubSeq(s, 1, i)

StartsWith(s, p) == Len(s) >= Len(p) /\ SubSeq(s, 1, Len(p)) = p

Contains(s, ch) == \E i \in 1..Len(s) : s[i] = ch

\* str.find / str.rfind of a character, 0 when absent (positions from 1)
Find(s, ch) == IF Contains(s, ch) THEN CHOOSE i \in 1..Len(s) : s[i] = ch /\ \A j \in 1..(i-1) : s[j] # ch ELSE 0
RFind(s, ch) == IF Contains(s, ch) THEN CHOOSE i \in 1..Len(s) : s[i] = ch /\ \A j \in (i+1)..Len(s) : s[j] # ch ELSE 0

\* str.split(ch)
RECURSIVE Split(_, _)
Split(s, ch) ==
    IF ~Contains(s, ch) THEN <<s>>
    ELSE <<Upto(s, Find(s, ch) - 1)>> \o Split(From(s, Find(s, ch) + 1), ch)

\* ch.join(parts)
RECURSIVE Join(_, _)
Join(parts, ch) ==
    IF parts = <<>> THEN <<>>
    ELSE IF Len(parts) = 1 THEN parts[1]
    ELSE parts[1] \o <<ch>> \o Join(Tail(parts), ch)

\* str(n) for a natural number
Digit(d) == <<"0", "1", "2", "3", "4", "5", "6", "7", "8", "9">>[d + 1]
RECURSIVE IntStr(_)
IntStr(n) == IF n < 10 THEN <<Digit(n)>> ELSE IntStr(n \div 10) \o <<Digit(n % 10)>>

---------------------------------------------------------------------------
(* pathlib (POSIX flavour): a Path is [abs, parts]; "." and empty          *)
(* components are dropped when a Path is built, ".." is kept.              *)
(* A path string starting with exactly two slashes keeps them in pathlib;  *)
(* no input of the model starts with two slashes.                          *)

PurePath(s) ==
    [abs |-> StartsWith(s, <<SLASH>>),
     parts |-> SelectSeq(Split(s, SLASH), LAMBDA c : c # <<>> /\ c # <<DOT>>)]

\* str(Path)
PathStr(p) ==
    IF p.abs THEN <<SLASH>> \o Join(p.parts, SLASH)
    ELSE IF p.parts = <<>> THEN <<DOT>>
    ELSE Join(p.parts, SLASH)

\* Path / str: an absolute right operand replaces the left one
PathJoin(p, s) ==
    IF PurePath(s).abs THEN PurePath(s)
    ELSE [abs |-> p.abs, parts |-> p.parts \o PurePath(s).parts]

\* Path.name
PathName(p) == IF p.parts = <<>> THEN <<>> ELSE p.parts[Len(p.parts)]

\* Path.suffix: from the last dot of the name, unless that dot is the
\* first or the last character of the name
PathSuffix(p) ==
    IF RFind(PathName(p), DOT) >= 2 /\ RFind(PathName(p), DOT) < Len(PathName(p))
    THEN From(PathName(p), RFind(PathName(p), DOT))
    ELSE <<>>

\* Path.with_suffix(""): raises ValueError on an empty name
WithSuffixEmptyOk(p) == PathName(p) # <<>>
WithSuffixEmpty(p) ==
    [abs |-> p.abs,
     parts |-> Upto(p.parts, Len(p.parts) - 1)
               \o <<Upto(PathName(p), Len(PathName(p)) - Len(PathSuffix(p)))>>]

\* Path.parent (lexical)
PathParent(p) ==
    IF p.parts = <<>> THEN p ELSE [abs |-> p.abs, parts |-> Upto(p.parts, Len(p.parts) - 1)]

---------------------------------------------------------------------------
(* The file system *)

\* The process's working directory, "/"
Cwd == <<>>

DirNode == [dir |-> TRUE, data |-> <<>>]
FileNode(d) == [dir |-> FALSE, data |-> d]

KeyParent(k) == IF k = <<>> THEN k ELSE Upto(k, Len(k) - 1)

\* k lies strictly under a
Under(k, a) == Len(k) > Len(a) /\ Upto(k, Len(a)) = a

KeyStr(k) == <<SLASH>> \o Join(k, SLASH)

\* Path name resolution by the kernel, component by component from the
\* root or the working directory: [st, key, last].  st is "ok" (key is the
\* node), "ENOENT" (last: only the final component is missing, key being
\* where it would be) or "ENOTDIR".
RECURSIVE KWalk(_, _, _, _)
KWalk(f, cur, comps, i) ==
    IF i > Len(comps) THEN [st |-> "ok", key |-> cur, last |-> FALSE]
    ELSE IF ~f[cur].dir THEN [st |-> "ENOTDIR", key |-> <<>>, last |-> FALSE]
    ELSE IF comps[i] = <<>> \/ comps[i] = <<DOT>> THEN KWalk(f, cur, comps, i + 1)
    ELSE IF comps[i] = <<DOT, DOT>> THEN KWalk(f, KeyParent(cur), comps, i + 1)
    ELSE IF Append(cur, comps[i]) \in DOMAIN f THEN KWalk(f, Append(cur, comps[i]), comps, i + 1)
    ELSE [st |-> "ENOENT", key |-> Append(cur, comps[i]), last |-> i = Len(comps)]

Walk(f, s) ==
    IF s = <<>> THEN [st |-> "ENOENT", key |-> <<>>, last |-> FALSE]
    ELSE KWalk(f, IF StartsWith(s, <<SLASH>>) THEN <<>> ELSE Cwd, Split(s, SLASH), 1)

\* os.path.exists / isfile / isdir: a failed stat is False
KExists(f, s) == Walk(f, s).st = "ok"
KIsFile(f, s) == LET w == Walk(f, s) IN w.st = "ok" /\ ~f[w.key].dir
KIsDir(f, s) == LET w == Walk(f, s) IN w.st = "ok" /\ f[w.key].dir

\* The exception a failed lookup raises
ErrOf(st) == IF st = "ENOENT" THEN "FileNotFoundError" ELSE "NotADirectoryError"

Ok(f) == [err |-> "", fs |-> f]
Fail(e, f) == [err |-> e, fs |-> f]

Put(f, k, node) == (k :> node) @@ f
Drop(f, ks) == [k \in DOMAIN f \ ks |-> f[k]]

\* open(s, "r") and read the bytes: [err, data]
KRead(f, s) ==
    LET w == Walk(f, s)
    IN  IF w.st # "ok" THEN [err |-> ErrOf(w.st), data |-> <<>>]
        ELSE IF f[w.key].dir THEN [err |-> "IsADirectoryError", data |-> <<>>]
        ELSE [err |-> "", data |-> f[w.key].data]

\* open(s, "w"): creates the file or truncates it
KOpenW(f, s) ==
    LET w == Walk(f, s)
    IN  IF w.st = "ok" THEN
            IF f[w.key].dir THEN Fail("IsADirectoryError", f)
            ELSE Ok(Put(f, w.key, FileNode(<<>>)))
        ELSE IF w.st = "ENOENT" /\ w.last THEN Ok(Put(f, w.key, FileNode(<<>>)))
        ELSE Fail(ErrOf(w.st), f)

\* os.mkdir(s)
KMkdir(f, s) ==
    LET w == Walk(f, s)
    IN  IF w.st = "ok" THEN Fail("FileExistsError", f)
        ELSE IF w.st = "ENOENT" /\ w.last THEN Ok(Put(f, w.key, DirNode))
        ELSE Fail(ErrOf(w.st), f)

\* Path.mkdir(parents=True, exist_ok=True): os.mkdir; on FileNotFoundError
\* make the (lexical) parent first and retry; any other OSError is
\* swallowed when the path is a directory
RECURSIVE PathMkdir(_, _)
PathMkdir(f, p) ==
    LET first == KMkdir(f, PathStr(p))
        up == PathMkdir(f, PathParent(p))
        again == KMkdir(up.fs, PathStr(p))
    IN  IF first.err = "" THEN first
        ELSE IF first.err = "FileNotFoundError" THEN
            IF PathParent(p) = p THEN first
            ELSE IF up.err # "" THEN up
            ELSE IF again.err = "" THEN again
            ELSE IF again.err # "FileNotFoundError" /\ KIsDir(up.fs, PathStr(p)) THEN Ok(up.fs)
            ELSE Fail(again.err, up.fs)
        ELSE IF KIsDir(f, PathStr(p)) THEN Ok(f)
        ELSE first

\* os.rename(a, b) of a regular file a (write renames only what is_file
\* has just found to be a file); b is replaced when it is a file
KRename(f, a, b) ==
    LET wa == Walk(f, a)
        wb == Walk(f, b)
    IN  IF wa.st # "ok" THEN Fail(ErrOf(wa.st), f)
        ELSE IF wb.st = "ok" THEN
            IF f[wb.key].dir THEN Fail("IsADirectoryError", f)
            ELSE IF wb.key = wa.key THEN Ok(f)
            ELSE Ok(Drop(Put(f, wb.key, f[wa.key]), {wa.key}))
        ELSE IF wb.st = "ENOENT" /\ wb.last THEN Ok(Drop(Put(f, wb.key, f[wa.key]), {wa.key}))
        ELSE Fail(ErrOf(wb.st), f)

\* os.remove(s)
KRemove(f, s) ==
    LET w == Walk(f, s)
    IN  IF w.st # "ok" THEN Fail(ErrOf(w.st), f)
        ELSE IF f[w.key].dir THEN Fail("IsADirectoryError", f)
        ELSE Ok(Drop(f, {w.key}))

\* shutil.rmtree of the directory at key k
Rmtree(f, k) == Drop(f, {q \in DOMAIN f : q = k \/ Under(q, k)})

\* shutil.copy2(s, d): into d when d is a directory; the content is copied
\* (the metadata copy2 preserves is not part of a node)
Copy2(f, s, d) ==
    LET target == IF KIsDir(f, d) THEN d \o <<SLASH>> \o PathName(PurePath(s)) ELSE d
        from == KRead(f, s)
        opened == KOpenW(f, target)
        ws == Walk(f, s)
        wt == Walk(f, target)
    IN  IF ws.st = "ok" /\ wt.st = "ok" /\ ws.key = wt.key THEN Fail("SameFileError", f)
        ELSE IF from.err # "" THEN Fail(from.err, f)
        ELSE IF opened.err # "" THEN opened
        ELSE Ok(Put(opened.fs, Walk(opened.fs, target).key, FileNode(from.data)))

\* os.path.realpath of a Path, as Path.resolve() uses it: without symbolic
\* links ".." is removed lexically, whether or not the components exist
RECURSIVE RealKey(_, _)
RealKey(k, parts) ==
    IF parts = <<>> THEN k
    ELSE IF parts[1] = <<DOT, DOT>> THEN RealKey(KeyParent(k), Tail(parts))
    ELSE RealKey(Append(k, parts[1]), Tail(parts))

Resolve(p) == RealKey(IF p.abs THEN <<>> ELSE Cwd, p.parts)

\* fnmatch.fnmatch(name, pat) on POSIX, for patterns of literal characters,
\* "?" and "*" ("*" matches any run of characters, "/" included)
RECURSIVE fnmatch(_, _)
fnmatch(name, pat) ==
    IF pat = <<>> THEN name = <<>>
    ELSE IF pat[1] = "*" THEN
        fnmatch(name, Tail(pat)) \/ (name # <<>> /\ fnmatch(Tail(name), pat))
    ELSE name # <<>> /\ (pat[1] = "?" \/ pat[1] = name[1]) /\ fnmatch(Tail(name), Tail(pat))

\* Text mode I/O.  Writing translates "\n" to os.linesep, which is "\n";
\* reading (newline=None) translates "\r\n" and "\r" to "\n".  The
\* characters of the model are ASCII, which UTF-8 encodes one to one.
\* The configured DEFAULT_ENCODING is "utf-8", so read takes the text
\* branch (line 63) and never the chardet branch (lines 56-61).
WriteNewlines(t) == t

\* A read that leaves carriage returns alone
ReadNewlines_raw(t) == t

RECURSIVE ReadNewlines(_)
ReadNewlines(t) ==
    IF t = <<>> THEN <<>>
    ELSE IF t[1] = CR /\ Len(t) >= 2 /\ t[2] = LF THEN <<LF>> \o ReadNewlines(From(t, 3))
    ELSE IF t[1] = CR THEN <<LF>> \o ReadNewlines(Tail(t))
    ELSE <<t[1]>> \o ReadNewlines(Tail(t))

---------------------------------------------------------------------------
(* json, for the values of the model *)

JNone == [t |-> "None", v |-> 0]
JInt(n) == [t |-> "int", v |-> n]
JList == [t |-> "list", v |-> 0]
JDict == [t |-> "dict", v |-> 0]
JValues == {JNone, JInt(0), JInt(1), JList, JDict}

\* json.dumps(data, indent=4)
JsonDumps(j) ==
    IF j.t = "None" THEN <<"n", "u", "l", "l">>
    ELSE IF j.t = "int" THEN IntStr(j.v)
    ELSE IF j.t = "list" THEN <<"[", "]">>
    ELSE <<"{", "}">>

IsSpace(ch) == ch \in {" ", "\t", LF, CR}
RECURSIVE LStrip(_)
LStrip(t) == IF t # <<>> /\ IsSpace(t[1]) THEN LStrip(Tail(t)) ELSE t
RECURSIVE RStrip(_)
RStrip(t) == IF t # <<>> /\ IsSpace(t[Len(t)]) THEN RStrip(Upto(t, Len(t) - 1)) ELSE t

\* json.loads(text): [err, jval]; white space around the value is skipped
JsonLoads(t) ==
    IF \E j \in JValues : JsonDumps(j) = RStrip(LStrip(t))
    THEN [err |-> "", jval |-> CHOOSE j \in JValues : JsonDumps(j) = RStrip(LStrip(t))]
    ELSE [err |-> "JSONDecodeError", jval |-> JNone]

---------------------------------------------------------------------------
(* Configuration (microcore._env.config()) *)

STORAGE_PATH == <<"r">>
STORAGE_DEFAULT_FILE_EXT == <<"t">>

---------------------------------------------------------------------------
(* Storage *)

\* Storage.path
path == PurePath(STORAGE_PATH)

\* Storage.default_ext: a leading dot is added when missing
default_ext ==
    IF STORAGE_DEFAULT_FILE_EXT # <<>> /\ ~StartsWith(STORAGE_DEFAULT_FILE_EXT, <<DOT>>)
    THEN <<DOT>> \o STORAGE_DEFAULT_FILE_EXT
    ELSE STORAGE_DEFAULT_FILE_EXT

\* Storage.exists
exists(f, name) == KExists(f, PathStr(PathJoin(path, name)))

\* Storage.abs_path
abs_path(name) == IF StartsWith(name, <<SLASH>>) THEN PurePath(name) ELSE PathJoin(path, name)

\* A read that prefers the bare name when a file of that name exists
ReadFile_bare_first(f, name) ==
    IF ~StartsWith(name, <<SLASH>>) /\ ~StartsWith(name, <<DOT, SLASH>>) THEN
        IF Contains(name, DOT) THEN PathStr(path) \o <<SLASH>> \o name
        ELSE IF exists(f, name) THEN PathStr(path) \o <<SLASH>> \o name
        ELSE PathStr(path) \o <<SLASH>> \o name \o default_ext
    ELSE name

\* The file Storage.read opens for a name
ReadFile(f, name) ==
    IF ~StartsWith(name, <<SLASH>>) /\ ~StartsWith(name, <<DOT, SLASH>>) THEN
        IF Contains(name, DOT) THEN
            PathStr(path) \o <<SLASH>>
                \o Join(Upto(Split(name, DOT), Len(Split(name, DOT)) - 1), DOT)
                \o <<DOT>> \o Split(name, DOT)[Len(Split(name, DOT))]
        ELSE IF ~exists(f, name \o default_ext) THEN PathStr(path) \o <<SLASH>> \o name
        ELSE PathStr(path) \o <<SLASH>> \o name \o default_ext
    ELSE name

\* Storage.read with the configured encoding: [err, data, file]
read(f, name) ==
    LET got == KRead(f, ReadFile(f, name))
    IN  [err |-> got.err, data |-> ReadNewlines(got.data), file |-> ReadFile(f, name)]

\* A read_json that tests the default for truth instead of None
read_json_truthy(f, name, default) ==
    LET text == read(f, name)
    IN  IF text.err = "" THEN JsonLoads(text.data)
        ELSE IF text.err = "FileNotFoundError" THEN
            IF default # JNone /\ default # JInt(0) /\ default # JList /\ default # JDict
            THEN [err |-> "", jval |-> default]
            ELSE [err |-> text.err, jval |-> JNone]
        ELSE [err |-> text.err, jval |-> JNone]

\* Storage.read_json: [err, jval]
read_json(f, name, default) ==
    LET text == read(f, name)
    IN  IF text.err = "" THEN JsonLoads(text.data)
        ELSE IF text.err = "FileNotFoundError" THEN
            IF default # JNone THEN [err |-> "", jval |-> default]
            ELSE [err |-> text.err, jval |-> JNone]
        ELSE [err |-> text.err, jval |-> JNone]

\* Storage.delete
delete(f, name) == KRemove(f, PathStr(PathJoin(path, name)))

NoLoc == [file_name |-> <<>>, file_name1 |-> <<>>, content |-> <<>>]

\* Storage.write, lines 99-119: the names.  hc says whether content was
\* given; without it the name argument is the content and the name is "out"
\* plus the default extension.
WriteName(name, hc) == IF hc THEN name ELSE <<"o", "u", "t">> \o default_ext
WriteContent(name, content, hc) == IF hc THEN content ELSE name

base_name(name) == PathStr(WithSuffixEmpty(PurePath(name)))
ext(name) == IF PathSuffix(PurePath(name)) # <<>> THEN PathSuffix(PurePath(name)) ELSE default_ext
file_name(name) == base_name(name) \o ext(name)
Numbered(name, counter) == base_name(name) \o <<"_">> \o IntStr(counter) \o ext(name)

\* is_file of a name under the storage path
is_file(f, fname) == KIsFile(f, PathStr(PathJoin(path, fname)))

\* A collision policy that forgets rewrite_existing=False
Collides_backup_only(f, name, rewrite_existing, backup_existing) ==
    is_file(f, file_name(name)) /\ backup_existing

\* A collision policy that forgets backup_existing
Collides_no_backup(f, name, rewrite_existing, backup_existing) ==
    is_file(f, file_name(name)) /\ ~rewrite_existing

\* The collision branch of write is taken
Collides(f, name, rewrite_existing, backup_existing) ==
    is_file(f, file_name(name)) /\ (backup_existing \/ ~rewrite_existing)

\* A probe that takes the suffix after the highest one in use
counter_after_highest(f, name) ==
    LET used == {n \in 1..(Cardinality(DOMAIN f) + 1) : is_file(f, Numbered(name, n))}
    IN  IF used = {} THEN 1 ELSE 1 + CHOOSE n \in used : \A m \in used : m <= n

\* The loop of lines 111-116: the first counter whose numbered name is not
\* a file.  It is at most one more than the number of nodes.
counter(f, name) ==
    CHOOSE n \in 1..(Cardinality(DOMAIN f) + 1) :
        /\ ~is_file(f, Numbered(name, n))
        /\ \A m \in 1..(n - 1) : is_file(f, Numbered(name, m))

file_name1(f, name) == Numbered(name, counter(f, name))

\* Storage.write, lines 99-119: [err, loc, next].  On a collision the
\* numbered name is found; without rewrite_existing it becomes the file to
\* write, else the existing file is to be renamed to it first.
WritePlan(f, name, content, hc, rewrite_existing, backup_existing) ==
    LET n == WriteName(name, hc)
        hit == Collides(f, n, rewrite_existing, backup_existing)
        numbered == file_name1(f, n)
    IN  IF ~WithSuffixEmptyOk(PurePath(n)) THEN [err |-> "ValueError", loc |-> NoLoc, next |-> "idle"]
        ELSE [err |-> "",
              loc |-> [file_name |-> IF hit /\ ~rewrite_existing THEN numbered ELSE file_name(n),
                       file_name1 |-> IF hit THEN numbered ELSE <<>>,
                       content |-> WriteContent(name, content, hc)],
              next |-> IF hit /\ rewrite_existing THEN "rename" ELSE "mkdir"]

\* A backup that is skipped: the step does nothing
StepRename_skipped(f, l) == Ok(f)

\* A backup that copies the file and leaves the original in place
StepRename_copy(f, l) ==
    Copy2(f, PathStr(PathJoin(path, l.file_name)), PathStr(PathJoin(path, l.file_name1)))

\* line 120: os.rename(self.path / file_name, self.path / file_name1)
StepRename(f, l) ==
    KRename(f, PathStr(PathJoin(path, l.file_name)), PathStr(PathJoin(path, l.file_name1)))

\* line 121: (self.path / file_name).parent.mkdir(parents=True, exist_ok=True)
StepMkdir(f, l) == PathMkdir(f, PathParent(PathJoin(path, l.file_name)))

\* line 122, write_text: the file is opened for writing (created or emptied)
StepOpen(f, l) == KOpenW(f, PathStr(PathJoin(path, l.file_name)))

\* line 122, write_text: the text is written and the file closed
StepData(f, l) ==
    Ok(Put(f, Walk(f, PathStr(PathJoin(path, l.file_name))).key, FileNode(WriteNewlines(l.content))))

\* A guard that lets the storage root itself through
CleanAllowed_root(p) ==
    Under(Resolve(PathJoin(path, p)), Resolve(path)) \/ Resolve(PathJoin(path, p)) = Resolve(path)

\* Storage.clean: the guard of line 133 and the removal
CleanAllowed(p) == Under(Resolve(PathJoin(path, p)), Resolve(path))

clean(f, p) ==
    IF ~CleanAllowed(p) THEN Fail("ValueError", f)
    ELSE IF KIsDir(f, KeyStr(Resolve(PathJoin(path, p)))) THEN Ok(Rmtree(f, Resolve(PathJoin(path, p))))
    ELSE Ok(f)

\* The entries of the directory at key k, as os.scandir lists them
Children(f, k) == {q \in DOMAIN f : Len(q) = Len(k) + 1 /\ Under(q, k)}

RECURSIVE Perms(_)
Perms(S) ==
    IF S = {} THEN {<<>>}
    ELSE UNION {{<<x>> \o t : t \in Perms(S \ {x})} : x \in S}

\* A loop body that matches the patterns against the entry's name only
CopyEntry_by_name(f, srcP, destP, sk, e, exceptions) ==
    LET rel == Join(From(e, Len(sk) + 1), SLASH)
        dest_path == PathJoin(destP, rel)
        made == PathMkdir(f, PathParent(dest_path))
    IN  IF \E pattern \in exceptions : fnmatch(e[Len(e)], pattern) THEN Ok(f)
        ELSE IF f[e].dir THEN PathMkdir(f, dest_path)
        ELSE IF made.err # "" THEN made
        ELSE Copy2(made.fs, PathStr(PathJoin(srcP, rel)), PathStr(dest_path))

\* One iteration of the loop of Storage.copy (lines 157-165) for the entry
\* at key e of the source directory at key sk
CopyEntry(f, srcP, destP, sk, e, exceptions) ==
    LET rel == Join(From(e, Len(sk) + 1), SLASH)
        dest_path == PathJoin(destP, rel)
        made == PathMkdir(f, PathParent(dest_path))
    IN  IF \E pattern \in exceptions : fnmatch(rel, pattern) THEN Ok(f)
        ELSE IF f[e].dir THEN PathMkdir(f, dest_path)
        ELSE IF made.err # "" THEN made
        ELSE Copy2(made.fs, PathStr(PathJoin(srcP, rel)), PathStr(dest_path))

RECURSIVE CopyEntries(_, _, _, _, _, _)
CopyEntries(f, srcP, destP, sk, order, exceptions) ==
    IF order = <<>> THEN Ok(f)
    ELSE LET one == CopyEntry(f, srcP, destP, sk, order[1], exceptions)
         IN  IF one.err # "" THEN one
             ELSE CopyEntries(one.fs, srcP, destP, sk, Tail(order), exceptions)

\* src and dest of Storage.copy as Paths (lines 151-152)
CopySrc(src) == IF PurePath(src).abs THEN PurePath(src) ELSE PathJoin(path, src)

\* The depth of the walk of a copy at which the interpreter's recursion
\* limit is met: the levels below the source that rglob can go down
RecursionLimit == 3

\* The loop of Storage.copy over the entries of the directory at key k.
\* rglob lists them when the walk arrives at k (_WildcardSelector: scandir,
\* in any order) and yields them one by one; the body runs between two
\* yields.  The entries go to distinct places of the destination, so when
\* none fails every order ends in the same file system; when one fails,
\* what was copied before it depends on the order.
LoopOver(f, srcP, destP, sk, k, exceptions) ==
    LET orders == Perms(Children(f, k))
        one == CopyEntries(f, srcP, destP, sk, CHOOSE order \in orders : TRUE, exceptions)
    IN  IF one.err = "" THEN {one}
        ELSE {CopyEntries(f, srcP, destP, sk, order, exceptions) : order \in orders}

\* The walk of src.rglob('*') with the loop of Storage.copy running on what
\* it yields (_RecursiveWildcardSelector._iterate_directories): the
\* entries of k are yielded and copied, then k is listed again, as it is
\* by then, and the walk goes down into each directory of that list, in
\* any order.  So the walk meets what the loop has created inside the
\* source.  Each level is a generator running inside the one above; at
\* level RecursionLimit the call that lists the directory again raises
\* RecursionError.  The outcomes are [err, fs].
RECURSIVE IterateDirectories(_, _, _, _, _, _, _), Descend(_, _, _, _, _, _, _)
IterateDirectories(f, srcP, destP, sk, k, level, exceptions) ==
    UNION { IF o.err # "" THEN {o}
            ELSE IF level >= RecursionLimit THEN {Fail("RecursionError", o.fs)}
            ELSE UNION { Descend(o.fs, srcP, destP, sk, order, level, exceptions) :
                         order \in Perms({q \in Children(o.fs, k) : o.fs[q].dir}) }
          : o \in LoopOver(f, srcP, destP, sk, k, exceptions) }
Descend(f, srcP, destP, sk, order, level, exceptions) ==
    IF order = <<>> THEN {Ok(f)}
    ELSE UNION { IF o.err # "" THEN {o}
                 ELSE Descend(o.fs, srcP, destP, sk, Tail(order), level, exceptions)
               : o \in IterateDirectories(f, srcP, destP, sk, order[1], level + 1, exceptions) }

\* Storage.copy: the outcomes [err, fs] the call can have
copy(f, src, dest, exceptions) ==
    LET srcP == CopySrc(src)
        destP == CopySrc(dest)
        made == PathMkdir(f, destP)
        sk == Walk(f, PathStr(srcP)).key
        into == IF KIsDir(f, PathStr(destP)) THEN PathJoin(destP, PathName(srcP)) ELSE destP
        up == PathMkdir(f, PathParent(into))
    IN  IF KIsDir(f, PathStr(srcP)) THEN
            IF made.err # "" THEN {made}
            ELSE IterateDirectories(made.fs, srcP, destP, sk, sk, 0, exceptions)
        ELSE IF KIsFile(f, PathStr(srcP)) THEN
            IF \E pattern \in exceptions : fnmatch(PathName(srcP), pattern) THEN {Ok(f)}
            ELSE IF up.err # "" THEN {up}
            ELSE {Copy2(up.fs, PathStr(srcP), PathStr(into))}
        ELSE {Ok(f)}

---------------------------------------------------------------------------
(* Bounds and inputs *)

\* Calls per run, and calls per sequence run
MaxCalls == 2
MaxSeqCalls == 5
\* Numbered siblings a sequence run may delete
MaxSibling == 2

R == <<"r">>
O == <<"o">>
A == <<"a">>
AT == <<"a", ".", "t">>
A1T == <<"a", "_", "1", ".", "t">>
A2T == <<"a", "_", "2", ".", "t">>
D == <<"d">>
E == <<"e">>
U == <<"u">>
BT == <<"b", ".", "t">>
F == <<"f">>
KT == <<"k", ".", "t">>

X == <<"x">>
Y == <<"y">>
Z == <<"z">>
ZERO == <<"0">>
XCRY == <<"x", CR, "y">>

\* A file system from its directories and files
Tree(dirs, files) ==
    [k \in {<<>>} \cup dirs \cup DOMAIN files |->
        IF k \in DOMAIN files THEN FileNode(files[k]) ELSE DirNode]

\* Outside the storage: /o/k.t and /a
Outside == (<<O, KT>> :> X) @@ (<<A>> :> Z)

InitFS ==
    { Tree({<<R>>, <<O>>}, Outside),
      Tree({<<R>>, <<O>>}, Outside @@ (<<R, AT>> :> X) @@ (<<R, A>> :> Y)),
      Tree({<<R>>, <<O>>}, Outside @@ (<<R, AT>> :> X) @@ (<<R, A1T>> :> Y)),
      Tree({<<R>>, <<O>>, <<R, A1T>>}, Outside @@ (<<R, AT>> :> ZERO) @@ (<<R, F>> :> X)),
      Tree({<<R>>, <<O>>, <<R, D>>, <<R, D, U>>, <<R, E>>},
           Outside @@ (<<R, D, AT>> :> X) @@ (<<R, D, U, BT>> :> Y)),
      Tree({<<R>>, <<O>>, <<R, AT>>}, Outside @@ (<<R, A>> :> XCRY)) }

Names ==
    { A, AT, <<".", "/", "a">>, <<"d", "/", "a">>, <<"a", "_", "1">>,
      <<"f", "/", "a">>, <<"/", "o", "/", "a">>, <<".", "a">>, <<>> }

Contents == {X, ZERO, XCRY}

\* Names and data of the calls of write_json
JsonNames == { A, AT, <<"d", "/", "a">> }
JsonData == { JNone, JInt(1), JList, JDict }

CleanPaths ==
    { D, <<"d", "/", "u">>, E, AT, <<"n">>, <<>>, <<".", ".">>, <<".", ".", "/", "o">>,
      <<"/", "o">>, <<"d", "/", ".", ".">>, <<"/", "r", "/", "d">>,
      <<"d", "/", ".", ".", "/", ".", ".", "/", "o">> }

CopyPaths == { D, E, <<"n">>, <<"d", "/", "a", ".", "t">>, <<"d", "/", "u">>, <<"/", "o">> }

Patterns == { {}, {U}, {<<"*", ".", "t">>}, {<<"a", "*">>}, {<<"u", "/", "?", "*">>, AT} }

---------------------------------------------------------------------------
(* The state machine: one call of Storage at a time *)

NoCall ==
    [op |-> "none", name |-> <<>>, content |-> <<>>, hc |-> TRUE,
     rewrite_existing |-> TRUE, backup_existing |-> TRUE,
     data |-> JNone, default |-> JNone, dest |-> <<>>, exceptions |-> {}]

Result(st, err) == [st |-> st, err |-> err, val |-> <<>>, jval |-> JNone, file |-> <<>>]
NoRes == Result("none", "")
Returned(val) == [Result("ok", "") EXCEPT !.val = val]
Raised(err) == Result("err", err)

Limit(h) == IF h THEN MaxSeqCalls ELSE MaxCalls

\* A call starts: c is the call, h says whether the run keeps its history
\* A run that keeps its history needs no Forget between calls
Ready(h) == pc = "idle" /\ (h \/ call = NoCall) /\ ncalls < Limit(h)

WriteOps == {"write", "write_json"}

SafeWrite(c) == c.op \in WriteOps /\ (c.backup_existing \/ ~c.rewrite_existing)

Begin(c, h) ==
    /\ Ready(h)
    /\ call' = c
    /\ pre' = fs
    /\ ncalls' = ncalls + 1
    /\ safe' = (safe /\ SafeWrite(c))
    /\ UNCHANGED <<fs0, subject>>

\* The call c ends with the result r
End(c, r, h) ==
    /\ pc' = "idle"
    /\ res' = r
    /\ loc' = NoLoc
    /\ hist' = IF h THEN Append(hist, [call |-> c, res |-> r, pre |-> pre']) ELSE hist

\* A call that is one step: outcome out = [err, fs]
Whole(c, out, r, h) ==
    /\ Begin(c, h)
    /\ fs' = out.fs
    /\ End(c, IF out.err = "" THEN r ELSE Raised(out.err), h)

TypeOK ==
    /\ pc \in {"idle", "rename", "mkdir", "open", "data"}
    /\ <<>> \in DOMAIN fs /\ fs[<<>>].dir
    /\ \A k \in DOMAIN fs \ {<<>>} : KeyParent(k) \in DOMAIN fs /\ fs[KeyParent(k)].dir
    /\ ncalls \in 0..(MaxCalls + MaxSeqCalls)
    /\ Len(hist) <= ncalls

Init ==
    /\ fs \in InitFS
    /\ pc = "idle"
    /\ call = NoCall
    /\ res = NoRes
    /\ pre = fs
    /\ loc = NoLoc
    /\ ncalls = 0
    /\ hist = <<>>
    /\ fs0 = fs
    /\ safe = TRUE
    /\ subject = <<>>

\* Storage.write, lines 99-119: the names are chosen; the file system is
\* not yet touched
WriteBegin(c, h) ==
    LET plan == WritePlan(fs, c.name, c.content, c.hc, c.rewrite_existing, c.backup_existing)
    IN  /\ Begin(c, h)
        /\ fs' = fs
        /\ IF plan.err # "" THEN End(c, Raised(plan.err), h)
           ELSE /\ loc' = plan.loc
                /\ pc' = plan.next
                /\ UNCHANGED <<res, hist>>

WriteStart(name, content, hc, rewrite_existing, backup_existing, h) ==
    WriteBegin([NoCall EXCEPT !.op = "write", !.name = name, !.content = content, !.hc = hc,
                              !.rewrite_existing = rewrite_existing,
                              !.backup_existing = backup_existing], h)

\* Storage.write_json, lines 66-75: write with json.dumps(data, indent=4)
\* as content
WriteJson(name, data, rewrite_existing, backup_existing, h) ==
    WriteBegin([NoCall EXCEPT !.op = "write_json", !.name = name, !.data = data,
                              !.content = JsonDumps(data), !.hc = TRUE,
                              !.rewrite_existing = rewrite_existing,
                              !.backup_existing = backup_existing], h)

\* A step of a write in progress: outcome out, then position next
WriteStep(at, out, next, h) ==
    /\ pc = at
    /\ fs' = out.fs
    /\ UNCHANGED <<call, pre, ncalls, fs0, safe, subject>>
    /\ IF out.err # "" THEN End(call, Raised(out.err), h)
       ELSE IF next = "idle" THEN End(call, Returned(loc.file_name), h)
       ELSE pc' = next /\ UNCHANGED <<res, loc, hist>>

WriteRename(h) == WriteStep("rename", StepRename(fs, loc), "mkdir", h)
WriteMkdir(h) == WriteStep("mkdir", StepMkdir(fs, loc), "open", h)
WriteOpen(h) == WriteStep("open", StepOpen(fs, loc), "data", h)
WriteData(h) == WriteStep("data", StepData(fs, loc), "idle", h)

\* The process dies in the middle of a write
Crash ==
    /\ pc # "idle"
    /\ fs' = fs
    /\ End(call, Result("crash", ""), FALSE)
    /\ safe' = FALSE
    /\ UNCHANGED <<call, pre, ncalls, fs0, subject>>

\* The caller has looked at the result and moves on
Forget ==
    /\ pc = "idle"
    /\ call # NoCall
    /\ call' = NoCall
    /\ res' = NoRes
    /\ pre' = fs
    /\ UNCHANGED <<fs, pc, loc, ncalls, hist, fs0, safe, subject>>

Read(name, h) ==
    LET c == [NoCall EXCEPT !.op = "read", !.name = name]
        got == read(fs, name)
    IN  /\ Begin(c, h)
        /\ fs' = fs
        /\ End(c, [Result(IF got.err = "" THEN "ok" ELSE "err", got.err)
                      EXCEPT !.val = got.data, !.file = got.file], h)

ReadJson(name, default, h) ==
    LET c == [NoCall EXCEPT !.op = "read_json", !.name = name, !.default = default]
        got == read_json(fs, name, default)
    IN  Whole(c, [err |-> got.err, fs |-> fs], [Result("ok", "") EXCEPT !.jval = got.jval], h)

Delete(name, h) ==
    Whole([NoCall EXCEPT !.op = "delete", !.name = name], delete(fs, name), Returned(<<>>), h)

Clean(p, h) ==
    Whole([NoCall EXCEPT !.op = "clean", !.name = p], clean(fs, p), Returned(<<>>), h)

Copy(src, dest, exceptions, h) ==
    /\ Ready(h)
    /\ \E out \in copy(fs, src, dest, exceptions) :
        Whole([NoCall EXCEPT !.op = "copy", !.name = src, !.dest = dest, !.exceptions = exceptions],
              out, Returned(<<>>), h)

Next ==
    \/ \E name \in Names, content \in Contents, rw \in BOOLEAN, bk \in BOOLEAN :
        WriteStart(name, content, TRUE, rw, bk, FALSE)
    \/ \E name \in Names, rw \in BOOLEAN, bk \in BOOLEAN :
        WriteStart(name, <<>>, FALSE, rw, bk, FALSE)
    \/ \E name \in JsonNames, data \in JsonData, rw \in BOOLEAN, bk \in BOOLEAN :
        WriteJson(name, data, rw, bk, FALSE)
    \/ WriteRename(FALSE)
    \/ WriteMkdir(FALSE)
    \/ WriteOpen(FALSE)
    \/ WriteData(FALSE)
    \/ Crash
    \/ Forget
    \/ \E name \in Names : Read(name, FALSE)
    \/ \E name \in Names, default \in JValues : ReadJson(name, default, FALSE)
    \/ \E name \in {AT, A1T, D} : Delete(name, FALSE)
    \/ \E p \in CleanPaths : Clean(p, FALSE)
    \/ \E src \in CopyPaths, dest \in CopyPaths, exceptions \in Patterns :
        Copy(src, dest, exceptions, FALSE)

Spec == Init /\ [][Next]_vars

---------------------------------------------------------------------------
(* Sequence runs: one name is written again and again with the default    *)
(* flags, read back, and its numbered siblings deleted; the history of    *)
(* the calls is kept.                                                      *)

SeqInitFS ==
    { Tree({<<R>>, <<O>>}, Outside),
      Tree({<<R>>, <<O>>}, Outside @@ (<<R, AT>> :> X) @@ (<<R, A1T>> :> Y)),
      Tree({<<R>>, <<O>>, <<R, D>>}, Outside @@ (<<R, A>> :> Y) @@ (<<R, D, AT>> :> Z)) }

SeqNames ==
    { A, AT, <<".", "/", "a">>, <<"d", "/", "a">>, <<".", "a">>, <<"a", "/">>,
      <<"/", "o", "/", "a">>, <<"d", ".", "e", "/", "a">> }

SeqContents == {X, XCRY}

InitSeq ==
    /\ fs \in SeqInitFS
    /\ pc = "idle"
    /\ call = NoCall
    /\ res = NoRes
    /\ pre = fs
    /\ loc = NoLoc
    /\ ncalls = 0
    /\ hist = <<>>
    /\ fs0 = fs
    /\ safe = TRUE
    /\ subject \in SeqNames

NextSeq ==
    \/ \E content \in SeqContents : WriteStart(subject, content, TRUE, TRUE, TRUE, TRUE)
    \/ WriteRename(TRUE)
    \/ WriteMkdir(TRUE)
    \/ WriteOpen(TRUE)
    \/ WriteData(TRUE)
    \/ Read(subject, TRUE)
    \/ \E i \in 1..MaxSibling : Delete(Numbered(subject, i), TRUE)

SpecSeq == InitSeq /\ [][NextSeq]_vars

---------------------------------------------------------------------------
(* What the claims speak of *)

\* The last call has finished (returned or raised)
Finished == pc = "idle" /\ res.st \in {"ok", "err"}

\* The name and content a write call works with
WName == WriteName(call.name, call.hc)
WText == WriteContent(call.name, call.content, call.hc)

\* The node a name relative to the storage path leads to
FKey(f, fname) == Walk(f, PathStr(PathJoin(path, fname))).key

\* fname is a regular file with that content
HasFile(f, fname, data) ==
    KRead(f, PathStr(PathJoin(path, fname))) = [err |-> "", data |-> data]

\* The two file systems agree at k
Same(f, g, k) == (k \in DOMAIN f <=> k \in DOMAIN g) /\ (k \in DOMAIN f => f[k] = g[k])

Files(f) == {k \in DOMAIN f : ~f[k].dir}

\* m is the first suffix whose numbered name is not a file
FreeSuffix(f, name, m) ==
    /\ ~is_file(f, Numbered(name, m))
    /\ \A j \in 1..(m - 1) : is_file(f, Numbered(name, j))

Suffixes(f) == 1..(Cardinality(DOMAIN f) + 1)

---------------------------------------------------------------------------
---------------------------------------------------------------------------
\* C4: clean raises ValueError and changes nothing when the resolved path
\* is not strictly under the resolved storage path; whatever a clean
\* removes lies strictly under the storage path, nothing is added or
\* altered, and nothing changes when the resolved path is no directory.
C4_CleanGuard ==
    (Finished /\ call.op = "clean")
    => LET full == Resolve(PathJoin(path, call.name))
       IN  /\ ~Under(full, Resolve(path)) => (res.err = "ValueError" /\ fs = pre)
           /\ \A k \in DOMAIN pre \ DOMAIN fs : Under(k, Resolve(path)) /\ (k = full \/ Under(k, full))
           /\ \A k \in DOMAIN fs : k \in DOMAIN pre /\ fs[k] = pre[k]
           /\ (full \notin DOMAIN pre \/ ~pre[full].dir) => fs = pre
           /\ res.err \in {"", "ValueError"}

C4_Witness ==
    /\ Finished /\ call.op = "clean" /\ res.err = "ValueError"
    /\ Contains(call.name, DOT)
    /\ Resolve(PathJoin(path, call.name)) = <<O>>
    /\ <<O, KT>> \in DOMAIN fs

---------------------------------------------------------------------------
\* The file a read_json would open does not exist
Missing(f, name) == ~KExists(f, ReadFile(f, name))

\* C5: a read_json of a file that does not exist changes nothing.  When
\* the lookup of the file ends in "no such file" it returns the default if
\* that is not None, 0 and the empty list and dict included, and raises
\* FileNotFoundError if it is None.  When a component of the path is a
\* regular file the lookup ends in "not a directory", and read_json raises
\* NotADirectoryError, which is not the not-found error, whatever the
\* default.
C5_DefaultOnNotFound ==
    (Finished /\ call.op = "read_json" /\ Missing(pre, call.name))
    => /\ fs = pre
       /\ Walk(pre, ReadFile(pre, call.name)).st = "ENOENT" =>
            /\ call.default # JNone => (res.st = "ok" /\ res.jval = call.default)
            /\ call.default = JNone => res.err = "FileNotFoundError"
       /\ Walk(pre, ReadFile(pre, call.name)).st = "ENOTDIR" => res.err = "NotADirectoryError"

C5_Witness ==
    /\ Finished /\ call.op = "read_json" /\ Missing(pre, call.name)
    /\ call.default = JInt(0) /\ res.st = "ok" /\ res.jval = JInt(0)

---------------------------------------------------------------------------
\* A directory copy: the keys of source and destination, the entries
\* below them as relative paths, and the entries no pattern matches
CopySk == Walk(pre, PathStr(CopySrc(call.name))).key
CopyDk == Resolve(CopySrc(call.dest))
Rel(k, base) == From(k, Len(base) + 1)
SrcEntries == {Rel(k, CopySk) : k \in {q \in DOMAIN pre : Under(q, CopySk)}}
DestEntries == {Rel(k, CopyDk) : k \in {q \in DOMAIN fs : Under(q, CopyDk)}}
Kept == {rel \in SrcEntries : ~\E pattern \in call.exceptions : fnmatch(Join(rel, SLASH), pattern)}
Prefixes(rel) == {Upto(rel, i) : i \in 1..Len(rel)}

Excluded(rel) == \E pattern \in call.exceptions : fnmatch(Join(rel, SLASH), pattern)

\* A copy of a directory to a destination that was absent or empty
DirCopy ==
    /\ Finished /\ call.op = "copy"
    /\ KIsDir(pre, PathStr(CopySrc(call.name)))
    /\ CopyDk \notin DOMAIN pre \/ (pre[CopyDk].dir /\ Children(pre, CopyDk) = {})

DirCopyReturned == DirCopy /\ res.st = "ok"

\* The source holds a directory as deep as the walk can go: only a copy
\* into its own source, stopped by RecursionError, leaves such a tree
TooDeep ==
    \E k \in DOMAIN pre :
        Under(k, CopySk) /\ pre[k].dir /\ Len(Rel(k, CopySk)) >= RecursionLimit

\* A missing directory above the destination, which the copy creates
NewParent(k) == Under(CopyDk, k) /\ k \notin DOMAIN pre /\ fs[k] = DirNode

---------------------------------------------------------------------------
\* A name read completes with the default extension or leaves bare
Plain(name) ==
    ~StartsWith(name, <<SLASH>>) /\ ~StartsWith(name, <<DOT, SLASH>>) /\ ~Contains(name, DOT)

RootedName(name) == PathStr(path) \o <<SLASH>> \o name

\* C7 as claimed: read opens the name with the default extension unless a
\* file of the bare name exists, which it then opens.
C7_AsClaimed ==
    (Finished /\ call.op = "read" /\ Plain(call.name))
    => res.file = IF KIsFile(pre, RootedName(call.name)) THEN RootedName(call.name)
                  ELSE RootedName(call.name \o default_ext)

\* C7, amended: read opens the name with the default extension whenever
\* that path exists, and the bare name otherwise; it returns the text of
\* the file it opens, and raises when that is no regular file.  So when
\* both files exist it returns the one with the extension.
C7_ExtensionFirst ==
    (Finished /\ call.op = "read" /\ Plain(call.name))
    => LET target == IF KExists(pre, RootedName(call.name \o default_ext))
                     THEN RootedName(call.name \o default_ext)
                     ELSE RootedName(call.name)
       IN  /\ res.file = target
           /\ KIsFile(pre, target) => (res.st = "ok" /\ res.val = ReadNewlines(pre[Walk(pre, target).key].data))
           /\ ~KIsFile(pre, target) => res.st = "err"
           /\ fs = pre

C7_Witness ==
    /\ Finished /\ call.op = "read" /\ call.name = A
    /\ KIsFile(pre, RootedName(A)) /\ KIsFile(pre, RootedName(AT))
    /\ pre[<<R, A>>].data # pre[<<R, AT>>].data
    /\ res.st = "ok" /\ res.val = pre[<<R, AT>>].data

---------------------------------------------------------------------------
\* A write with rewrite_existing and backup_existing that found its target
\* to be a file, in progress or crashed
BackupWrite ==
    /\ call.op \in WriteOps /\ call.rewrite_existing /\ call.backup_existing
    /\ WithSuffixEmptyOk(PurePath(WName))
    /\ is_file(pre, file_name(WName))
    /\ pc # "idle" \/ res.st = "crash"

OldData == pre[FKey(pre, file_name(WName))].data

\* The backup name: the numbered name with the first free suffix
BackupHolds(f) == \E m \in Suffixes(pre) : FreeSuffix(pre, WName, m) /\ HasFile(f, Numbered(WName, m), OldData)

\* C8: in such a write the rename comes before the content is written.
\* Before the rename nothing has changed; from the rename until the file
\* is opened the original name does not exist and the backup name holds the
\* old content; the backup holds it from then on, also after a crash; the
\* new content is at the original name only when the write has returned.
C8_RenameBeforeWrite ==
    BackupWrite
    => /\ pc = "rename" => fs = pre
       /\ pc \in {"mkdir", "open"} => (~exists(fs, file_name(WName)) /\ BackupHolds(fs))
       /\ pc = "data" => (HasFile(fs, file_name(WName), <<>>) /\ BackupHolds(fs))
       /\ res.st = "crash" =>
            \/ fs = pre
            \/ BackupHolds(fs) /\ (~exists(fs, file_name(WName)) \/ HasFile(fs, file_name(WName), <<>>))
       /\ \E k \in Files(fs) : fs[k].data = OldData

C8_Witness ==
    /\ BackupWrite /\ res.st = "crash"
    /\ ~exists(fs, file_name(WName))
    /\ BackupHolds(fs)
    /\ OldData # WText

---------------------------------------------------------------------------
\* C9: a write with backup_existing or without rewrite_existing, returned
\* or raised, leaves every file that existed with its content, except that
\* the target may have moved to a numbered name that was not a file; the
\* only files that differ are the target and that numbered name; and from
\* a start of such writes every content the storage began with is still
\* the content of some file.
C9_NoDataLoss ==
    /\ (Finished /\ SafeWrite(call))
        => \E m \in Suffixes(pre) :
            /\ FreeSuffix(pre, WName, m)
            /\ \A k \in Files(pre) :
                \/ k \in Files(fs) /\ fs[k] = pre[k]
                \/ /\ k = FKey(pre, file_name(WName))
                   /\ HasFile(fs, Numbered(WName, m), pre[k].data)
            /\ \A k \in Files(pre) \cup Files(fs) :
                \/ Same(pre, fs, k)
                \/ k = FKey(fs, file_name(WName))
                \/ k = FKey(fs, Numbered(WName, m)) /\ k \notin DOMAIN pre
    /\ (safe /\ (Finished \/ call = NoCall))
        => \A k \in Files(fs0) : \E q \in Files(fs) : fs[q].data = fs0[k].data

C9_Witness ==
    /\ Finished /\ SafeWrite(call) /\ call.rewrite_existing /\ res.st = "ok" /\ safe /\ ncalls = 2
    /\ is_file(pre, file_name(WName))
    /\ pre[FKey(pre, file_name(WName))].data # WText
    /\ \E k \in Files(fs0) : k \in Files(fs) /\ fs[k].data # fs0[k].data

---------------------------------------------------------------------------
(* Runs that keep their history.  Every write of such a run is          *)
(* write(subject, content) with the default flags.                       *)

\* The file system when the i-th call of the history had ended
After(i) == IF i < Len(hist) THEN hist[i + 1].pre ELSE fs

WriteOk(i) == hist[i].call.op = "write" /\ hist[i].res.st = "ok"

\* The history ends in two writes that returned
TwoWrites ==
    /\ pc = "idle" /\ Len(hist) >= 2
    /\ WriteOk(Len(hist) - 1) /\ WriteOk(Len(hist))

First == hist[Len(hist) - 1]
Second == hist[Len(hist)]

\* C1 as claimed: after two consecutive writes of a name the second content
\* is at the original name and the first at the name with suffix 1, from
\* every storage state.
C1_AsClaimed ==
    TwoWrites
    => /\ HasFile(fs, file_name(subject), Second.call.content)
       /\ HasFile(fs, Numbered(subject, 1), First.call.content)

\* C1, amended: after two consecutive writes of a name that returned, the
\* second content is at the original name and the first at the numbered
\* name with the smallest suffix that was not a file when the second write
\* began.  That suffix is 1 exactly when the name with suffix 1 was not a
\* file then, which is so when neither the original name nor the name with
\* suffix 1 was a file before the first write.
C1_BackupAtFirstFree ==
    TwoWrites
    => /\ HasFile(fs, file_name(subject), Second.call.content)
       /\ \E n \in Suffixes(Second.pre) :
            /\ FreeSuffix(Second.pre, subject, n)
            /\ HasFile(fs, Numbered(subject, n), First.call.content)
            /\ (~is_file(First.pre, file_name(subject)) /\ ~is_file(First.pre, Numbered(subject, 1)))
                => n = 1
            /\ is_file(First.pre, file_name(subject)) => n > 1

C1_Witness ==
    /\ TwoWrites /\ subject = A
    /\ is_file(First.pre, AT) /\ is_file(First.pre, A1T)
    /\ First.call.content # Second.call.content
    /\ HasFile(fs, AT, Second.call.content)
    /\ HasFile(fs, Numbered(A, 3), First.call.content)
    /\ ~HasFile(fs, A1T, First.call.content)

---------------------------------------------------------------------------
\* The history ends in a write that returned and a read of the same name
WriteThenRead ==
    /\ pc = "idle" /\ Len(hist) >= 2
    /\ WriteOk(Len(hist) - 1) /\ Second.call.op = "read"

\* C3 as claimed: for a name whose last component has no extension, a read
\* after a write returns the content written, and the file written and
\* read is the name with the default extension under the storage path.
C3_AsClaimed ==
    (WriteThenRead /\ PathSuffix(PurePath(subject)) = <<>>)
    => /\ Second.res.st = "ok" /\ Second.res.val = First.call.content
       /\ First.res.val = subject \o default_ext
       /\ Second.res.file = RootedName(subject \o default_ext)

\* C3, amended: for a relative name that has no dot in it, does not begin
\* with "./" and does not end in "/", a read after a write that returned
\* opens the file the write has written, which is the name with the
\* default extension under the storage path, and returns the content with
\* every "\r\n" and "\r" turned into "\n": the content written exactly when
\* it has no carriage return.
C3_RoundTrip ==
    (WriteThenRead /\ Plain(subject) /\ subject # <<>> /\ subject[Len(subject)] # SLASH)
    => /\ Second.res.st = "ok"
       /\ Second.res.val = ReadNewlines(First.call.content)
       /\ ~Contains(First.call.content, CR) => Second.res.val = First.call.content
       /\ Contains(First.call.content, CR) => Second.res.val # First.call.content
       /\ Second.res.file = RootedName(subject \o default_ext)
       /\ Walk(fs, Second.res.file).key = FKey(fs, First.res.val)
       /\ HasFile(fs, First.res.val, First.call.content)

C3_Witness ==
    /\ WriteThenRead /\ subject = <<"d", "/", "a">>
    /\ First.call.content = X
    /\ Second.res.st = "ok" /\ Second.res.val = X
    /\ Second.res.file = <<"r", "/", "d", "/", "a", ".", "t">>

---------------------------------------------------------------------------
\* Neither the original name nor any numbered name is a file
Fresh(f) ==
    /\ ~is_file(f, file_name(subject))
    /\ \A n \in Suffixes(f) : ~is_file(f, Numbered(subject, n))

AllWrites == \A i \in 1..Len(hist) : WriteOk(i)

\* The last call is a write that returned and found its target a file
BackedUp ==
    /\ pc = "idle" /\ Len(hist) >= 1 /\ WriteOk(Len(hist))
    /\ is_file(hist[Len(hist)].pre, file_name(subject))

\* C10: from a storage where neither the name nor a numbered name is a
\* file, after k+1 writes of the name the original name holds the last
\* content, the name with suffix i holds the i-th content for i in 1..k,
\* and no higher suffix is a file.  Whenever a write backs up the file,
\* from any storage and after any deletions, the old content goes to the
\* smallest suffix that was not a file, also when higher suffixes are.
C10_BackupNumbering ==
    /\ (pc = "idle" /\ Len(hist) >= 1 /\ AllWrites /\ Fresh(fs0))
        => /\ HasFile(fs, file_name(subject), hist[Len(hist)].call.content)
           /\ \A i \in 1..(Len(hist) - 1) : HasFile(fs, Numbered(subject, i), hist[i].call.content)
           /\ \A n \in Suffixes(fs) : n >= Len(hist) => ~is_file(fs, Numbered(subject, n))
    /\ BackedUp
        => \E n \in Suffixes(hist[Len(hist)].pre) :
            /\ FreeSuffix(hist[Len(hist)].pre, subject, n)
            /\ HasFile(fs, Numbered(subject, n),
                       hist[Len(hist)].pre[FKey(hist[Len(hist)].pre, file_name(subject))].data)

C10_Witness ==
    /\ pc = "idle" /\ Len(hist) = 5 /\ subject = A /\ Fresh(fs0)
    /\ WriteOk(1) /\ WriteOk(2) /\ WriteOk(3) /\ WriteOk(5)
    /\ hist[4].call.op = "delete" /\ hist[4].call.name = A1T /\ hist[4].res.st = "ok"
    /\ hist[1].call.content # hist[3].call.content
    /\ HasFile(After(3), A1T, hist[1].call.content)
    /\ HasFile(After(3), A2T, hist[2].call.content)
    /\ HasFile(fs, A1T, hist[3].call.content)
    /\ HasFile(fs, A2T, hist[2].call.content)
    /\ HasFile(fs, AT, hist[5].call.content)
    /\ ~is_file(fs, Numbered(A, 3))

====
